---- MODULE Spec2Model ----
(***************************************************************************)
(* Model of the Sudoku engine of src/sudoku/main.py: the validator and     *)
(* backtracking solver (class SmartSudokuSolver) and the puzzle generator  *)
(* (generate_puzzle).                                                      *)
(*                                                                         *)
(* A grid is the program's list of nine lists of nine integers, indexed    *)
(* from 0 as in the source: g[row][col].  The recursive searches are       *)
(* modelled with an explicit call stack, one frame per active call, so     *)
(* that every placement and every reset of a cell is a state.              *)
(***************************************************************************)
EXTENDS Integers, Sequences, FiniteSets, TLC

\* Bounds of the model: cells of BlankCells that inputs may have emptied,
\* and the largest limit passed to count_solutions.
MaxBlank == 5
MaxLimit == 3

\* Bound on the shuffles of the coordinate list generate_puzzle may draw.
MaxOffset == 1

\* Bound on the shuffles of a diagonal box the seeding may draw.
MaxSeedShift == 3

\* Bound on the calls of random.shuffle of the second invocation that the
\* model follows.
MaxOther == 2

\* Bound on the handlers that run in a session.
MaxMoves == 3

Idx    == 0 .. 8          \* range(9)
Digits == 1 .. 9          \* range(1, 10)
Cells  == Idx \X Idx

EmptyBoard == [i \in Idx |-> [j \in Idx |-> 0]]

\* g[row][col] = num
SetCell(g, row, col, num) == [g EXCEPT ![row][col] = num]

\* copy.deepcopy(g): a new object with the same content
deepcopy(g) == g

None == <<>>

\* is_valid_move without the scan of the row (lines 46-48)
is_valid_move_no_row(g, row, col, num) ==
    LET start_row == 3 * (row \div 3)
        start_col == 3 * (col \div 3)
    IN  /\ \A i \in Idx : ~(i # row /\ g[i][col] = num)
        /\ \A i \in start_row .. start_row + 2 :
              \A j \in start_col .. start_col + 2 :
                 ~((i # row \/ j # col) /\ g[i][j] = num)

\* is_valid_move whose box scan compares the cell (row, col) too
is_valid_move_own_cell(g, row, col, num) ==
    LET start_row == 3 * (row \div 3)
        start_col == 3 * (col \div 3)
    IN  /\ \A j \in Idx : ~(j # col /\ g[row][j] = num)
        /\ \A i \in Idx : ~(i # row /\ g[i][col] = num)
        /\ \A i \in start_row .. start_row + 2 :
              \A j \in start_col .. start_col + 2 : g[i][j] # num

(***************************************************************************)
(* SmartSudokuSolver.is_valid_move: three scans, each returning False on   *)
(* the first cell other than (row, col) that holds num.                    *)
(***************************************************************************)
is_valid_move(g, row, col, num) ==
    LET start_row == 3 * (row \div 3)
        start_col == 3 * (col \div 3)
    IN  /\ \A j \in Idx : ~(j # col /\ g[row][j] = num)
        /\ \A i \in Idx : ~(i # row /\ g[i][col] = num)
        /\ \A i \in start_row .. start_row + 2 :
              \A j \in start_col .. start_col + 2 :
                 ~((i # row \/ j # col) /\ g[i][j] = num)

\* find_empty with the two loops exchanged: the scan goes down the columns
find_empty_by_column(g) ==
    LET zc == {j \in Idx : \E i \in Idx : g[i][j] = 0}
    IN  IF zc = {} THEN None
        ELSE LET j == CHOOSE x \in zc : \A y \in zc : x <= y
                 zr == {i \in Idx : g[i][j] = 0}
                 i == CHOOSE x \in zr : \A y \in zr : x <= y
             IN  <<i, j>>

(***************************************************************************)
(* SmartSudokuSolver.find_empty: row-major scan; None when no cell is 0.   *)
(***************************************************************************)
find_empty(g) ==
    LET zr == {i \in Idx : \E j \in Idx : g[i][j] = 0}
    IN  IF zr = {} THEN None
        ELSE LET i == CHOOSE x \in zr : \A y \in zr : x <= y
                 zc == {j \in Idx : g[i][j] = 0}
                 j == CHOOSE x \in zc : \A y \in zc : x <= y
             IN  <<i, j>>

\* the for-loop started again from 1 after a recursive call has returned
next_num_restart(g, row, col, last) ==
    LET ok == {n \in Digits : is_valid_move(g, row, col, n)}
    IN  IF ok = {} THEN 0 ELSE CHOOSE n \in ok : \A m \in ok : n <= m

\* the for-loop as "for num in range(9, 0, -1)": digits tried downwards
next_num_descending(g, row, col, last) ==
    LET ok == {n \in Digits : (last = 0 \/ n < last) /\ is_valid_move(g, row, col, n)}
    IN  IF ok = {} THEN 0 ELSE CHOOSE n \in ok : \A m \in ok : n >= m

\* The for-loop "for num in range(1, 10): if is_valid_move(...)" resumed
\* after digit `last`: the next digit whose body runs, or 0 when the loop
\* runs out.
next_num(g, row, col, last) ==
    LET ok == {n \in Digits : n > last /\ is_valid_move(g, row, col, n)}
    IN  IF ok = {} THEN 0 ELSE CHOOSE n \in ok : \A m \in ok : n <= m

(***************************************************************************)
(* State.                                                                  *)
(*   board      the caller's grid object (the list passed to the call,     *)
(*              generate_puzzle's local `board`)                           *)
(*   work       the object made by copy.deepcopy inside count_solutions    *)
(*              (None while there is none)                                 *)
(*   tgt        which object the running search reads and writes           *)
(*   stack      the active recursive calls that chose a cell: frames       *)
(*              <<row, col, num>>, num the loop variable (0 before the     *)
(*              first iteration)                                           *)
(*   solutions  the list passed to _find_all_solutions                     *)
(*   limit      max_solutions                                              *)
(*   pc         control position                                           *)
(*   cont       where control goes when the outermost search call returns  *)
(*   op         the operation the outermost caller invoked                 *)
(*   ret        the value the last finished call returned                  *)
(*   args       the arguments (row, col, num) of the last is_valid_move    *)
(*   scan       is_valid_puzzle's position in its row-major double loop    *)
(*   before     the caller's grid as it was when the call started          *)
(*   prev       the call before this one: its operation, its result, the   *)
(*              caller's grid when it started, and the solutions list it   *)
(*              left                                                       *)
(*   gen        the locals of generate_puzzle: clues, solution, cells,     *)
(*              pos (position of the for-loop in cells), removed,          *)
(*              target_removed, backup; nums (the three shuffled lists),   *)
(*              run (which call of generate_puzzle this is) and first      *)
(*              (the shuffled cells of the call before)                    *)
(*   random_state    the state of the hidden generator of module random,   *)
(*              which random.shuffle reads and advances: the number of     *)
(*              shuffles made since it was seeded                          *)
(*   other_shuffles  the calls of random.shuffle a second, concurrent      *)
(*              invocation of generate_puzzle has made                     *)
(***************************************************************************)
VARIABLES board, work, tgt, stack, solutions, limit, pc, cont, op, ret, args,
          scan, before, prev, gen, random_state, other_shuffles, game, pool

vars == <<board, work, tgt, stack, solutions, limit, pc, cont, op, ret, args,
          scan, before, prev, gen, random_state, other_shuffles, game, pool>>

Cur == IF tgt = "board" THEN board ELSE work

Write(g) == IF tgt = "board" THEN board' = g /\ UNCHANGED work
                             ELSE work' = g /\ UNCHANGED board

\* generate_puzzle is not running
NoGen == [clues |-> 0, solution |-> None, cells |-> <<>>, pos |-> 0,
          removed |-> 0, target_removed |-> 0, backup |-> 0,
          nums |-> <<>>, run |-> 0, first |-> <<>>]

\* no SudokuGame object exists
NoGame == [difficulty |-> "none"]

Top == stack[Len(stack)]
Pop == SubSeq(stack, 1, Len(stack) - 1)
SetTopNum(n) == [stack EXCEPT ![Len(stack)] = <<Top[1], Top[2], n>>]

(***************************************************************************)
(* SmartSudokuSolver.solve, one step per call entry, per loop iteration    *)
(* that places a digit, and per reset.                                     *)
(***************************************************************************)
\* lines 74-78: find_empty; a full grid returns True, and every caller up
\* the stack returns True at once (line 82-83) without another write.
SolveCall ==
    /\ pc = "solve_call"
    /\ LET empty == find_empty(Cur)
       IN  IF empty = None
           THEN /\ ret' = TRUE
                /\ stack' = <<>>
                /\ pc' = cont
           ELSE /\ stack' = Append(stack, <<empty[1], empty[2], 0>>)
                /\ pc' = "solve_loop"
                /\ UNCHANGED ret
    /\ UNCHANGED <<board, work, tgt, solutions, limit, cont, op, args, scan,
                   before, prev, gen>>
    /\ UNCHANGED <<random_state, other_shuffles>>
    /\ UNCHANGED <<game, pool>>

\* lines 79-82 and 86: the next digit that passes is_valid_move is placed
\* and solve is called; when the loop runs out the call returns False.
SolveLoop ==
    /\ pc = "solve_loop"
    /\ LET row == Top[1]
           col == Top[2]
           num == next_num(Cur, row, col, Top[3])
       IN  IF num = 0
           THEN /\ stack' = Pop
                /\ IF Len(stack) = 1
                   THEN pc' = cont /\ ret' = FALSE
                   ELSE pc' = "solve_fail" /\ UNCHANGED ret
                /\ UNCHANGED <<board, work>>
           ELSE /\ Write(SetCell(Cur, row, col, num))
                /\ stack' = SetTopNum(num)
                /\ pc' = "solve_call"
                /\ UNCHANGED ret
    /\ UNCHANGED <<tgt, solutions, limit, cont, op, args, scan, before, prev, gen>>
    /\ UNCHANGED <<random_state, other_shuffles>>
    /\ UNCHANGED <<game, pool>>

\* line 84 as board[row] = [0] * 9: the whole row is emptied
solve_reset_row(g, row, col) == [g EXCEPT ![row] = [j \in Idx |-> 0]]

\* line 84 left out: the cell keeps the digit that failed
solve_reset_skipped(g, row, col) == g

\* line 84: the recursive call returned False; board[row][col] = 0
solve_reset(g, row, col) == SetCell(g, row, col, 0)

SolveFail ==
    /\ pc = "solve_fail"
    /\ Write(solve_reset(Cur, Top[1], Top[2]))
    /\ pc' = "solve_loop"
    /\ UNCHANGED <<tgt, stack, solutions, limit, cont, op, ret, args, scan,
                   before, prev, gen>>
    /\ UNCHANGED <<random_state, other_shuffles>>
    /\ UNCHANGED <<game, pool>>

(***************************************************************************)
(* SmartSudokuSolver._find_all_solutions, with the same steps.  When the   *)
(* outermost call returns, count_solutions returns len(solutions).         *)
(***************************************************************************)
\* a call of _find_all_solutions returns to its caller: the frame on top of
\* the stack (which resets its cell next) or count_solutions
FindReturn(stk, sols) ==
    /\ stack' = stk
    /\ solutions' = sols
    /\ IF stk = <<>>
       THEN pc' = cont /\ ret' = Len(sols)
       ELSE pc' = "find_undo" /\ UNCHANGED ret

\* line 112 with max_solutions - 1 for max_solutions
limit_reached_early(sols, max_solutions) == Len(sols) >= max_solutions - 1

\* line 112 with > for >=
limit_reached_late(sols, max_solutions) == Len(sols) > max_solutions

\* line 112: len(solutions) >= max_solutions
limit_reached(sols, max_solutions) == Len(sols) >= max_solutions

\* lines 112-120: the limit, find_empty, the append of a full grid
FindCall ==
    /\ pc = "find_call"
    /\ IF limit_reached(solutions, limit)
       THEN FindReturn(stack, solutions)
       ELSE LET empty == find_empty(Cur)
            IN  IF empty = None
                THEN FindReturn(stack, Append(solutions, deepcopy(Cur)))
                ELSE /\ stack' = Append(stack, <<empty[1], empty[2], 0>>)
                     /\ pc' = "find_loop"
                     /\ UNCHANGED <<solutions, ret>>
    /\ UNCHANGED <<board, work, tgt, limit, cont, op, args, scan, before, prev, gen>>
    /\ UNCHANGED <<random_state, other_shuffles>>
    /\ UNCHANGED <<game, pool>>

\* lines 121-124
FindLoop ==
    /\ pc = "find_loop"
    /\ LET row == Top[1]
           col == Top[2]
           num == next_num(Cur, row, col, Top[3])
       IN  IF num = 0
           THEN /\ FindReturn(Pop, solutions)
                /\ UNCHANGED <<board, work>>
           ELSE /\ Write(SetCell(Cur, row, col, num))
                /\ stack' = SetTopNum(num)
                /\ pc' = "find_call"
                /\ UNCHANGED <<solutions, ret>>
    /\ UNCHANGED <<tgt, limit, cont, op, args, scan, before, prev, gen>>
    /\ UNCHANGED <<random_state, other_shuffles>>
    /\ UNCHANGED <<game, pool>>

\* line 125: board[row][col] = 0
FindUndo ==
    /\ pc = "find_undo"
    /\ Write(SetCell(Cur, Top[1], Top[2], 0))
    /\ pc' = "find_loop"
    /\ UNCHANGED <<tgt, stack, solutions, limit, cont, op, ret, args, scan,
                   before, prev, gen>>
    /\ UNCHANGED <<random_state, other_shuffles>>
    /\ UNCHANGED <<game, pool>>

Search == SolveCall \/ SolveLoop \/ SolveFail \/ FindCall \/ FindLoop \/ FindUndo

\* line 105 left out, the list living on between calls
new_solutions_kept(sols) == sols

\* line 105: solutions = []
new_solutions(sols) == <<>>

\* line 106 without copy.deepcopy: the search works on the caller's list
count_solutions_alias == "board"

\* line 106: the list handed to _find_all_solutions
\* is copy.deepcopy(board), a new object
count_solutions_target == "work"

\* The caller invokes count_solutions(g, l), g the content of its board;
\* control returns to `to`.
StartCount(g, l, to) ==
    /\ work' = deepcopy(g)
    /\ tgt' = count_solutions_target
    /\ solutions' = new_solutions(solutions)
    /\ limit' = l
    /\ stack' = <<>>
    /\ cont' = to
    /\ pc' = "find_call"

(***************************************************************************)
(* SmartSudokuSolver.is_valid_puzzle: one step per cell of the row-major   *)
(* double loop.  ivp_body is lines 94-98 for a non-zero cell: the grid     *)
(* after the three writes and reads, and whether the loop goes on.         *)
(***************************************************************************)
\* lines 94-98 with row and column swapped in the call of is_valid_move
ivp_body_swapped(g, i, j) ==
    LET num   == g[i][j]
        g0    == SetCell(g, i, j, 0)
        valid == is_valid_move(g0, j, i, num)
    IN  [valid |-> valid, board |-> SetCell(g0, i, j, num)]

\* lines 94-99 with the return of False placed before the restore
ivp_body_early_return(g, i, j) ==
    LET num   == g[i][j]
        g0    == SetCell(g, i, j, 0)
        valid == is_valid_move(g0, i, j, num)
    IN  [valid |-> valid,
         board |-> IF valid THEN SetCell(g0, i, j, num) ELSE g0]

ivp_body(g, i, j) ==
    LET num   == g[i][j]
        g0    == SetCell(g, i, j, 0)
        valid == is_valid_move(g0, i, j, num)
    IN  [valid |-> valid, board |-> SetCell(g0, i, j, num)]

IvpStep ==
    /\ pc = "ivp_scan"
    /\ IF scan = 81
       THEN /\ ret' = TRUE
            /\ pc' = "done"
            /\ UNCHANGED <<board, scan>>
       ELSE LET i == scan \div 9
                j == scan % 9
            IN  IF board[i][j] # 0
                THEN LET r == ivp_body(board, i, j)
                     IN  /\ board' = r.board
                         /\ IF r.valid
                            THEN scan' = scan + 1 /\ UNCHANGED <<pc, ret>>
                            ELSE /\ ret' = FALSE
                                 /\ pc' = "done"
                                 /\ UNCHANGED scan
                ELSE /\ scan' = scan + 1
                     /\ UNCHANGED <<board, pc, ret>>
    /\ UNCHANGED <<work, tgt, stack, solutions, limit, cont, op, args, before,
                   prev, gen>>
    /\ UNCHANGED <<random_state, other_shuffles>>
    /\ UNCHANGED <<game, pool>>

(***************************************************************************)
(* The engine's callers.  From "idle" a caller holding `board` invokes one *)
(* operation; at "done" the operation has returned `ret`.                  *)
(***************************************************************************)
CallSolve ==
    /\ pc = "idle"
    /\ op' = "solve"
    /\ before' = board
    /\ tgt' = "board"
    /\ stack' = <<>>
    /\ cont' = "done"
    /\ pc' = "solve_call"
    /\ UNCHANGED <<board, work, solutions, limit, ret, args, scan, prev, gen>>
    /\ UNCHANGED <<random_state, other_shuffles>>
    /\ UNCHANGED <<game, pool>>

CallCountSolutions ==
    /\ pc = "idle"
    /\ \E l \in 1 .. MaxLimit : StartCount(board, l, "done")
    /\ op' = "count_solutions"
    /\ before' = board
    /\ UNCHANGED <<board, ret, args, scan, prev, gen>>
    /\ UNCHANGED <<random_state, other_shuffles>>
    /\ UNCHANGED <<game, pool>>

CallIsValidMove ==
    /\ pc = "idle"
    /\ \E row \in Idx, col \in Idx, num \in Digits :
          /\ args' = <<row, col, num>>
          /\ ret' = is_valid_move(board, row, col, num)
    /\ op' = "is_valid_move"
    /\ before' = board
    /\ pc' = "done"
    /\ UNCHANGED <<board, work, tgt, stack, solutions, limit, cont, scan, prev, gen>>
    /\ UNCHANGED <<random_state, other_shuffles>>
    /\ UNCHANGED <<game, pool>>

CallIsValidPuzzle ==
    /\ pc = "idle"
    /\ op' = "is_valid_puzzle"
    /\ before' = board
    /\ scan' = 0
    /\ pc' = "ivp_scan"
    /\ UNCHANGED <<board, work, tgt, stack, solutions, limit, cont, ret, args,
                   prev, gen>>
    /\ UNCHANGED <<random_state, other_shuffles>>
    /\ UNCHANGED <<game, pool>>

CallFindEmpty ==
    /\ pc = "idle"
    /\ ret' = find_empty(board)
    /\ op' = "find_empty"
    /\ before' = board
    /\ pc' = "done"
    /\ UNCHANGED <<board, work, tgt, stack, solutions, limit, cont, args, scan,
                   prev, gen>>
    /\ UNCHANGED <<random_state, other_shuffles>>
    /\ UNCHANGED <<game, pool>>

\* The caller goes on to its next call with the grid as the last one left it.
Continue ==
    /\ pc = "done"
    /\ pc' = "idle"
    /\ prev' = <<op, ret, before, solutions>>
    /\ op' = "none"
    /\ ret' = None
    /\ args' = None
    /\ before' = board
    /\ work' = None
    /\ solutions' = <<>>
    /\ limit' = 0
    /\ scan' = 0
    /\ UNCHANGED <<board, tgt, stack, cont, gen>>
    /\ UNCHANGED <<random_state, other_shuffles>>
    /\ UNCHANGED <<game, pool>>

(***************************************************************************)
(* Input grids: a solved grid with some of the cells of BlankCells emptied *)
(* and at most one cell overwritten with a value 0..9.                     *)
(***************************************************************************)
Solved ==
    << <<5,3,4,6,7,8,9,1,2>>, <<6,7,2,1,9,5,3,4,8>>, <<1,9,8,3,4,2,5,6,7>>,
       <<8,5,9,7,6,1,4,2,3>>, <<4,2,6,8,5,3,7,9,1>>, <<7,1,3,9,2,4,8,5,6>>,
       <<9,6,1,5,3,7,2,8,4>>, <<2,8,7,4,1,9,6,3,5>>, <<3,4,5,2,8,6,1,7,9>> >>

SolvedBoard == [i \in Idx |-> [j \in Idx |-> Solved[i + 1][j + 1]]]

BlankCells == << <<6,8>>, <<6,3>>, <<2,7>>, <<7,3>>, <<7,8>>, <<6,6>>, <<7,5>> >>

PokeCells == { <<6,3>>, <<8,7>> }

Blanked(mask) ==
    [i \in Idx |-> [j \in Idx |->
        IF \E t \in mask : BlankCells[t] = <<i, j>> THEN 0 ELSE SolvedBoard[i][j]]]

Inputs ==
    LET masked == {Blanked(mask) : mask \in SUBSET (1 .. MaxBlank)}
    IN  masked \cup {SetCell(g, c[1], c[2], v) :
                        g \in masked, c \in PokeCells, v \in 0 .. 9}

Init ==
    /\ board \in Inputs
    /\ work = None
    /\ tgt = "board"
    /\ stack = <<>>
    /\ solutions = <<>>
    /\ limit = 0
    /\ pc = "idle"
    /\ cont = "done"
    /\ op = "none"
    /\ ret = None
    /\ args = None
    /\ scan = 0
    /\ before = board
    /\ prev = None
    /\ gen = NoGen
    /\ random_state = 0
    /\ other_shuffles = 0
    /\ game = NoGame
    /\ pool = <<>>

Next ==
    \/ CallSolve
    \/ CallCountSolutions
    \/ CallIsValidPuzzle
    \/ Search
    \/ IvpStep
    \/ Continue

Spec == Init /\ [][Next]_vars

\* The canonical puzzle, row-major, and the grids the tests name: the
\* all-zero grid and the canonical puzzle.
Canonical ==
    << <<5,3,0,0,7,0,0,0,0>>, <<6,0,0,1,9,5,0,0,0>>, <<0,9,8,0,0,0,0,6,0>>,
       <<8,0,0,0,6,0,0,0,3>>, <<4,0,0,8,0,3,0,0,1>>, <<7,0,0,0,2,0,0,0,6>>,
       <<0,6,0,0,0,0,2,8,0>>, <<0,0,0,4,1,9,0,0,5>>, <<0,0,0,0,8,0,0,7,9>> >>

CanonicalPuzzle == [i \in Idx |-> [j \in Idx |-> Canonical[i + 1][j + 1]]]

FixedInputs == {EmptyBoard, CanonicalPuzzle}

\* the caller holds a grid of S and has called nothing yet
InitFrom(S) ==
    /\ board \in S
    /\ work = None
    /\ tgt = "board"
    /\ stack = <<>>
    /\ solutions = <<>>
    /\ limit = 0
    /\ pc = "idle"
    /\ cont = "done"
    /\ op = "none"
    /\ ret = None
    /\ args = None
    /\ scan = 0
    /\ before = board
    /\ prev = None
    /\ gen = NoGen
    /\ random_state = 0
    /\ other_shuffles = 0
    /\ game = NoGame
    /\ pool = <<>>

\* the calls of Next on the all-zero grid and on the canonical puzzle
SpecFixed == InitFrom(FixedInputs) /\ [][Next]_vars

\* find_empty alone, on every input grid, the all-zero grid and the
\* canonical puzzle
SpecFind == InitFrom(Inputs \cup FixedInputs) /\ [][CallFindEmpty]_vars

\* One call of solve or count_solutions on every input grid, on the
\* all-zero grid and on the canonical puzzle.
NextCalls == CallSolve \/ CallCountSolutions \/ Search

SpecCalls == InitFrom(Inputs \cup FixedInputs) /\ [][NextCalls]_vars

\* is_valid_move alone, on every input grid and every (row, col, num)
SpecMove == Init /\ [][CallIsValidMove]_vars

(***************************************************************************)
(* generate_puzzle.  The outcomes of random.shuffle are drawn from bounded *)
(* sets of permutations: a box is filled with 1..9 rotated by a shift,     *)
(* and the 81 coordinates are visited along an arithmetic progression      *)
(* modulo 81.                                                              *)
(***************************************************************************)
difficulty_levels ==
    [d \in {"easy", "medium", "hard", "expert"} |->
        CASE d = "easy"   -> 40
          [] d = "medium" -> 32
          [] d = "hard"   -> 26
          [] d = "expert" -> 22]

Difficulties == DOMAIN difficulty_levels

\* difficulty_levels.get(difficulty, 32)
clues_of(difficulty) ==
    IF difficulty \in DOMAIN difficulty_levels
    THEN difficulty_levels[difficulty] ELSE 32

\* outcomes of random.shuffle(nums), nums = list(range(1, 10))
Shifts == {0}

BoxShuffles == {[idx \in 0 .. 8 |-> ((idx + k) % 9) + 1] : k \in Shifts}

\* outcomes of random.shuffle(cells), cells in row-major order
Strides == {80}

CellShuffles ==
    {[t \in 1 .. 81 |-> LET n == (a * (t - 1) + b) % 81 IN <<n \div 9, n % 9>>] :
        a \in Strides, b \in 0 .. MaxOffset}

\* lines 146-149 with board[i][box + j] for board[box + i][box + j]: the
\* three boxes side by side in rows 0..2
seed_board_top_band(nums) ==
    [r \in Idx |-> [c \in Idx |->
        IF r < 3 THEN nums[(c \div 3) + 1][3 * r + (c % 3)] ELSE 0]]

\* lines 140-149: the three boxes on the diagonal; nums is the list of the
\* three shuffled lists, in the order the loop over box draws them
seed_board(nums) ==
    [r \in Idx |-> [c \in Idx |->
        IF r \div 3 = c \div 3
        THEN nums[(r \div 3) + 1][3 * (r % 3) + (c % 3)]
        ELSE 0]]

\* lines 131-151: table lookup, seeding, and the call solve(board); D the
\* difficulties and B the outcomes of random.shuffle(nums) drawn from
GenStartFrom(D, B) ==
    /\ pc = "gen_idle"
    /\ \E difficulty \in D, n0 \in B, n1 \in B, n2 \in B :
          /\ gen' = [NoGen EXCEPT !.clues = clues_of(difficulty),
                                   !.nums = <<n0, n1, n2>>,
                                   !.run = 1]
          /\ board' = seed_board(<<n0, n1, n2>>)
    /\ op' = "generate_puzzle"
    /\ tgt' = "board"
    /\ stack' = <<>>
    /\ cont' = "gen_solved"
    /\ pc' = "solve_call"
    /\ UNCHANGED <<work, solutions, limit, ret, args, scan, before, prev>>
    /\ UNCHANGED <<random_state, other_shuffles>>
    /\ UNCHANGED <<game, pool>>

GenStart == GenStartFrom(Difficulties, BoxShuffles)

\* lines 152-158; the value solve returned is not looked at
GenSolved ==
    /\ pc = "gen_solved"
    /\ \E cells \in CellShuffles :
          gen' = [gen EXCEPT !.solution = deepcopy(board),
                             !.cells = cells,
                             !.pos = 1,
                             !.removed = 0,
                             !.target_removed = 81 - gen.clues]
    /\ pc' = "gen_loop"
    /\ UNCHANGED <<board, work, tgt, stack, solutions, limit, cont, op, ret,
                   args, scan, before, prev>>
    /\ UNCHANGED <<random_state, other_shuffles>>
    /\ UNCHANGED <<game, pool>>

\* lines 152 and 172 with solution = board for line 152: both names denote
\* one list
gen_return_alias(g, solution) == <<g, g>>

\* line 172: return board, solution; solution is the object made at line 152
gen_return(g, solution) == <<g, solution>>

\* line 161 with > for >=
dig_done_late(removed, target_removed) == removed > target_removed

\* line 167 with >= for ==
keep_removed_any(count) == count >= 1

\* line 170 left out
dig_restore_skipped(g, i, j, backup) == g

\* line 161: removed >= target_removed
dig_done(removed, target_removed) == removed >= target_removed

\* line 167 with != for ==
keep_removed_unless(count) == count # 1

\* line 167: count_solutions(board, 2) == 1
keep_removed(count) == count = 1

\* line 170: board[i][j] = backup
dig_restore(g, i, j, backup) == SetCell(g, i, j, backup)

\* lines 160-167: the loop head, the tentative removal and the call
\* count_solutions(board, 2); line 172 when the loop ends
GenLoop ==
    /\ pc = "gen_loop"
    /\ IF gen.pos > Len(gen.cells) \/ dig_done(gen.removed, gen.target_removed)
       THEN /\ ret' = gen_return(board, gen.solution)
            /\ pc' = "done"
            /\ UNCHANGED <<board, work, tgt, stack, solutions, limit, cont, gen>>
       ELSE LET i == gen.cells[gen.pos][1]
                j == gen.cells[gen.pos][2]
            IN  /\ gen' = [gen EXCEPT !.backup = board[i][j]]
                /\ board' = SetCell(board, i, j, 0)
                /\ StartCount(board', 2, "gen_counted")
                /\ UNCHANGED ret
    /\ UNCHANGED <<op, args, scan, before, prev>>
    /\ UNCHANGED <<random_state, other_shuffles>>
    /\ UNCHANGED <<game, pool>>

\* lines 167-170, and the step of the for-loop
GenCounted ==
    /\ pc = "gen_counted"
    /\ LET i == gen.cells[gen.pos][1]
           j == gen.cells[gen.pos][2]
       IN  IF keep_removed(ret)
           THEN /\ gen' = [gen EXCEPT !.removed = gen.removed + 1,
                                      !.pos = gen.pos + 1]
                /\ UNCHANGED board
           ELSE /\ board' = dig_restore(board, i, j, gen.backup)
                /\ gen' = [gen EXCEPT !.pos = gen.pos + 1]
    /\ pc' = "gen_loop"
    /\ UNCHANGED <<work, tgt, stack, solutions, limit, cont, op, ret, args,
                   scan, before, prev>>
    /\ UNCHANGED <<random_state, other_shuffles>>
    /\ UNCHANGED <<game, pool>>

\* The caller of generate_puzzle checks the pair it got: count_solutions on
\* the puzzle, and solve on a copy of the puzzle.
CheckCount ==
    /\ pc = "gen_check"
    /\ StartCount(board, 2, "done")
    /\ op' = "count_solutions"
    /\ before' = board
    /\ UNCHANGED <<board, ret, args, scan, prev, gen>>
    /\ UNCHANGED <<random_state, other_shuffles>>
    /\ UNCHANGED <<game, pool>>

CheckSolve ==
    /\ pc = "gen_check"
    /\ work' = deepcopy(board)
    /\ tgt' = "work"
    /\ stack' = <<>>
    /\ cont' = "done"
    /\ pc' = "solve_call"
    /\ op' = "solve"
    /\ before' = board
    /\ UNCHANGED <<board, solutions, limit, ret, args, scan, prev, gen>>
    /\ UNCHANGED <<random_state, other_shuffles>>
    /\ UNCHANGED <<game, pool>>

GenReturned ==
    /\ pc = "done"
    /\ op = "generate_puzzle"
    /\ pc' = "gen_check"
    /\ prev' = <<op, ret, before, solutions>>
    /\ UNCHANGED <<board, work, tgt, stack, solutions, limit, cont, op, ret,
                   args, scan, before, gen>>
    /\ UNCHANGED <<random_state, other_shuffles>>
    /\ UNCHANGED <<game, pool>>

\* A caller that got a puzzle with more clues than the target takes one
\* clue out of a copy of it and calls count_solutions(copy, 2).
ProbeClue ==
    /\ pc = "gen_check"
    /\ Cardinality({c \in Cells : board[c[1]][c[2]] # 0}) > gen.clues
    /\ \E i \in Idx, j \in Idx :
          /\ board[i][j] # 0
          /\ StartCount(SetCell(board, i, j, 0), 2, "done")
          /\ before' = SetCell(board, i, j, 0)
    /\ op' = "count_solutions"
    /\ UNCHANGED <<board, ret, args, scan, prev, gen>>
    /\ UNCHANGED <<random_state, other_shuffles>>
    /\ UNCHANGED <<game, pool>>

InitGen ==
    /\ board = EmptyBoard
    /\ work = None
    /\ tgt = "board"
    /\ stack = <<>>
    /\ solutions = <<>>
    /\ limit = 0
    /\ pc = "gen_idle"
    /\ cont = "done"
    /\ op = "none"
    /\ ret = None
    /\ args = None
    /\ scan = 0
    /\ before = board
    /\ prev = None
    /\ gen = NoGen
    /\ random_state = 0
    /\ other_shuffles = 0
    /\ game = NoGame
    /\ pool = <<>>

NextGen ==
    \/ GenStart
    \/ GenSolved
    \/ GenLoop
    \/ GenCounted
    \/ GenReturned
    \/ CheckCount
    \/ CheckSolve
    \/ Search

SpecGen == InitGen /\ [][NextGen]_vars

\* generate_puzzle, and count_solutions on the returned puzzle less one clue
NextProbe ==
    \/ GenStart
    \/ GenSolved
    \/ GenLoop
    \/ GenCounted
    \/ GenReturned
    \/ ProbeClue
    \/ FindCall
    \/ FindLoop
    \/ FindUndo
    \/ SolveCall
    \/ SolveLoop
    \/ SolveFail

SpecProbe == InitGen /\ [][NextProbe]_vars

(***************************************************************************)
(* Two calls of generate_puzzle in one process.  The second call gets the  *)
(* difficulty of the first and its three box shuffles draw the same        *)
(* permutations; its coordinate shuffle is drawn anew.  Everything the     *)
(* first call left behind is still there when the second starts.           *)
(***************************************************************************)
GenAgain ==
    /\ pc = "done"
    /\ op = "generate_puzzle"
    /\ gen.run = 1
    /\ gen' = [NoGen EXCEPT !.clues = gen.clues,
                             !.nums = gen.nums,
                             !.run = 2,
                             !.first = gen.cells]
    /\ board' = seed_board(gen.nums)
    /\ prev' = <<op, ret, before, solutions>>
    /\ tgt' = "board"
    /\ stack' = <<>>
    /\ cont' = "gen_solved"
    /\ pc' = "solve_call"
    /\ UNCHANGED <<work, solutions, limit, op, ret, args, scan, before>>
    /\ UNCHANGED <<random_state, other_shuffles>>
    /\ UNCHANGED <<game, pool>>

GenFirst == GenStartFrom({"easy", "expert"}, BoxShuffles)

NextTwice == GenFirst \/ GenSolved \/ GenLoop \/ GenCounted \/ GenAgain \/ Search

SpecTwice == InitGen /\ [][NextTwice]_vars

(***************************************************************************)
(* generate_puzzle with its shuffles read from the generator of module     *)
(* random (lines 144 and 155 call random.shuffle, which uses the one       *)
(* hidden generator of the process).  The outcome of a shuffle is a        *)
(* function of the generator's state, and every shuffle advances it.  A    *)
(* first call runs alone after random.seed; then the generator is seeded   *)
(* again with the same seed and the call runs while a second invocation of *)
(* generate_puzzle, on its own board, makes its own calls of               *)
(* random.shuffle.  Of the second invocation only these calls are          *)
(* modelled, since they are all it has in common with the first; they      *)
(* fall before the first invocation's box shuffles or between its solve    *)
(* and its coordinate shuffle.                                             *)
(***************************************************************************)
\* random.shuffle(nums) at generator state s
shuffled_nums(s) == [idx \in 0 .. 8 |-> ((idx + s) % 9) + 1]

\* random.shuffle(cells) at generator state s
shuffled_cells(s) ==
    [t \in 1 .. 81 |->
        LET n == (80 * (t - 1) + (s % (MaxOffset + 1))) % 81
        IN  <<n \div 9, n % 9>>]

\* lines 131-151, the three shuffles taken from the generator
SharedStart ==
    /\ pc = "gen_idle"
    /\ LET nums == <<shuffled_nums(random_state),
                     shuffled_nums(random_state + 1),
                     shuffled_nums(random_state + 2)>>
       IN  /\ gen' = [NoGen EXCEPT !.clues = clues_of("easy"),
                                    !.nums = nums,
                                    !.run = IF prev = None THEN 1 ELSE 2]
           /\ board' = seed_board(nums)
    /\ random_state' = random_state + 3
    /\ op' = "generate_puzzle"
    /\ tgt' = "board"
    /\ stack' = <<>>
    /\ cont' = "gen_solved"
    /\ pc' = "solve_call"
    /\ UNCHANGED <<work, solutions, limit, ret, args, scan, before, prev,
                   other_shuffles>>
    /\ UNCHANGED <<game, pool>>

\* lines 152-158, the shuffle of cells taken from the generator
SharedSolved ==
    /\ pc = "gen_solved"
    /\ gen' = [gen EXCEPT !.solution = deepcopy(board),
                          !.cells = shuffled_cells(random_state),
                          !.pos = 1,
                          !.removed = 0,
                          !.target_removed = 81 - gen.clues]
    /\ random_state' = random_state + 1
    /\ pc' = "gen_loop"
    /\ UNCHANGED <<board, work, tgt, stack, solutions, limit, cont, op, ret,
                   args, scan, before, prev, other_shuffles>>
    /\ UNCHANGED <<game, pool>>

\* the second invocation calls random.shuffle (line 144 or 155)
OtherShuffle ==
    /\ prev # None
    /\ pc \in {"gen_idle", "gen_solved"}
    /\ other_shuffles < MaxOther
    /\ other_shuffles' = other_shuffles + 1
    /\ random_state' = random_state + 1
    /\ UNCHANGED <<board, work, tgt, stack, solutions, limit, pc, cont, op,
                   ret, args, scan, before, prev, gen>>
    /\ UNCHANGED <<game, pool>>

\* the first call has returned; random.seed with the seed of the first
\* call, and the call is made again with the same difficulty
SharedAgain ==
    /\ pc = "done"
    /\ op = "generate_puzzle"
    /\ prev = None
    /\ prev' = <<op, ret, before, solutions>>
    /\ random_state' = 0
    /\ pc' = "gen_idle"
    /\ UNCHANGED <<board, work, tgt, stack, solutions, limit, cont, op, ret,
                   args, scan, before, gen, other_shuffles>>
    /\ UNCHANGED <<game, pool>>

NextShared ==
    \/ SharedStart
    \/ SharedSolved
    \/ OtherShuffle
    \/ SharedAgain
    \/ GenLoop
    \/ GenCounted
    \/ Search

SpecShared == InitGen /\ [][NextShared]_vars

(***************************************************************************)
(* The seeding and the first solve of generate_puzzle alone, over a larger *)
(* set of outcomes of the three box shuffles: idx |-> (a * idx + k) % 9 + 1*)
(* for a in SeedStrides and k in 0 .. MaxSeedShift.                        *)
(***************************************************************************)
SeedStrides == {1, 2}

SeedShuffles ==
    {[idx \in 0 .. 8 |-> ((a * idx + k) % 9) + 1] :
        a \in SeedStrides, k \in 0 .. MaxSeedShift}

SeedStart == GenStartFrom({"medium"}, SeedShuffles)

NextSeed == SeedStart \/ SolveCall \/ SolveLoop \/ SolveFail \/ GenSolved

SpecSeed == InitGen /\ [][NextSeed]_vars

(***************************************************************************)
(* SudokuGame: the fields of a session that its handlers read and write.   *)
(* game holds difficulty, puzzle, solution, original_puzzle, user_puzzle,  *)
(* game_completed, auto_check and, of the 81 Entry widgets, the text, the  *)
(* state ("normal" or "readonly") and whether <KeyRelease> and <FocusOut>  *)
(* are bound.  Colours, fonts, the timer and the hint counter are written  *)
(* by the handlers and read by none of the statements modelled here.  A    *)
(* handler runs from its first line to its return in one step: Tk runs one *)
(* callback at a time.                                                     *)
(*                                                                         *)
(* generate_puzzle and the validation of a file read nothing of the        *)
(* session; their results are computed by the step machines above before   *)
(* the session starts and kept in pool, and the handler that makes the     *)
(* call takes its result from there.                                       *)
(***************************************************************************)
DigitStr == <<"1", "2", "3", "4", "5", "6", "7", "8", "9">>

\* str(n), n in 0..9
str(n) == IF n = 0 THEN "0" ELSE DigitStr[n]

\* the digits the user types
TypedDigits == {1, 3, 8, 9}

\* what an Entry holds when the key is released: nothing, one digit, "0",
\* two digits, or a letter
Keyed == {"", "0", "12", "x"} \cup {DigitStr[n] : n \in TypedDigits}

\* val.isdigit() on the texts above and on str(n)
isdigit(val) == val # "" /\ val # "x"

\* len(val) > 1
long(val) == val = "12"

\* int(val) for a val that isdigit
int(val) ==
    CASE val = "0"  -> 0
      [] val = "12" -> 12
      [] OTHER      -> CHOOSE n \in Digits : DigitStr[n] = val

\* the cells the user puts the cursor in
KeyCells == {<<0, 0>>, <<0, 2>>, <<2, 1>>}

\* the files the user selects: the example puzzle, a full grid with two 9s
\* in its last row, and a grid without duplicate that has no solution
LoadInputs ==
    {CanonicalPuzzle,
     SetCell(SolvedBoard, 8, 7, 9),
     SetCell(Blanked({1, 4}), 6, 3, 4)}

\* what is computed for a session, in order: generate_puzzle("medium") of
\* line 231, the validation of a file, generate_puzzle("easy") of line 1609
PoolOrder == <<"medium", "file", "easy">>

\* lines 915-918 without line 918: the cell stays 0
validate_cell_no_restore(user_puzzle, solution, row, col, num) ==
    IF num = solution[row][col]
    THEN user_puzzle
    ELSE SetCell(user_puzzle, row, col, 0)

\* lines 902-918, the grid self.user_puzzle after the call: line 906
\* returns before any write; lines 910-911 save the cell and zero it, line
\* 913 reads the grid for the colour, line 918 writes the saved value
validate_cell(user_puzzle, solution, row, col, num) ==
    IF num = solution[row][col]
    THEN user_puzzle
    ELSE LET temp_val == user_puzzle[row][col]
             zeroed   == SetCell(user_puzzle, row, col, 0)
         IN  SetCell(zeroed, row, col, temp_val)

\* lines 1133 and 1198 without the test: every cell is written
writable_always(state) == TRUE

\* lines 1133 and 1198: self.cells[i][j]['state'] != 'readonly'
writable(state) == state # "readonly"

\* lines 714-725 and 946-951: validate_cell on every cell that is not
\* readonly and holds digits, one cell after the other.  A call writes
\* the cell it is called on and no other, and what it writes depends on
\* that cell alone, so each cell ends with what its own call leaves in it.
validate_cells(user_puzzle, g) ==
    [i \in Idx |-> [j \in Idx |->
        LET val == g.text[i][j]
        IN  IF g.state[i][j] # "readonly" /\ val # "" /\ isdigit(val)
            THEN validate_cell(user_puzzle, g.solution, i, j, int(val))[i][j]
            ELSE user_puzzle[i][j]]]

\* lines 955-961
is_puzzle_complete(user_puzzle, solution) ==
    \A i \in Idx, j \in Idx : user_puzzle[i][j] = solution[i][j]

\* lines 1362-1389 with no test at all: every file passes
preview_conflict_none(g) == FALSE

\* lines 1362-1389 and 1398: validation_errors is not empty
preview_conflict(g) ==
    \E i \in Idx, j \in Idx :
        /\ g[i][j] # 0
        /\ \/ \E col \in Idx : col # j /\ g[i][col] = g[i][j]
           \/ \E row \in Idx : row # i /\ g[row][j] = g[i][j]
           \/ \E r \in 0 .. 2, c \in 0 .. 2 :
                 LET rr == 3 * (i \div 3) + r
                     cc == 3 * (j \div 3) + c
                 IN  (rr # i \/ cc # j) /\ g[rr][cc] = g[i][j]

\* lines 366-383 and 1579-1601: the Entry texts and states for a puzzle,
\* and the bindings added to those the cells had
display(puzzle, bound) ==
    [text  |-> [i \in Idx |-> [j \in Idx |->
                  IF puzzle[i][j] # 0 THEN str(puzzle[i][j]) ELSE ""]],
     state |-> [i \in Idx |-> [j \in Idx |->
                  IF puzzle[i][j] # 0 THEN "readonly" ELSE "normal"]],
     bound |-> bound \cup {c \in Cells : puzzle[c[1]][c[2]] = 0}]

\* lines 231-236, 1513-1522 and 1609-1613: the fields set when a puzzle is
\* put in place
with_puzzle(g, entry) ==
    LET d == display(entry.puzzle, g.bound)
    IN  [g EXCEPT !.puzzle = entry.puzzle,
                  !.solution = entry.solution,
                  !.original_puzzle = deepcopy(entry.puzzle),
                  !.user_puzzle = deepcopy(entry.puzzle),
                  !.game_completed = FALSE,
                  !.text = d.text,
                  !.state = d.state,
                  !.bound = d.bound]

\* the calls of generate_puzzle, one after the other
PoolStart ==
    /\ game = NoGame
    /\ Len(pool) < Len(PoolOrder)
    /\ PoolOrder[Len(pool) + 1] # "file"
    /\ GenStartFrom({PoolOrder[Len(pool) + 1]}, BoxShuffles)

\* line 231 and line 1609: the pair returned
PoolReturn ==
    /\ pc = "done"
    /\ op = "generate_puzzle"
    /\ game = NoGame
    /\ pool' = Append(pool, [kind |-> "generated", clues |-> gen.clues,
                             puzzle |-> ret[1], solution |-> ret[2]])
    /\ pc' = "gen_idle"
    /\ UNCHANGED <<board, work, tgt, stack, solutions, limit, cont, op, ret,
                   args, scan, before, prev, gen>>
    /\ UNCHANGED <<random_state, other_shuffles, game>>

\* lines 1349-1447: validate_preview_puzzle on the grid read from the file;
\* with validation errors nothing can be loaded, without them
\* solve(test_board) runs on a copy
LoadStart ==
    /\ pc = "gen_idle"
    /\ game = NoGame
    /\ Len(pool) < Len(PoolOrder)
    /\ PoolOrder[Len(pool) + 1] = "file"
    /\ \E preview_puzzle \in LoadInputs :
          /\ ~preview_conflict(preview_puzzle)
          /\ board' = preview_puzzle
          /\ work' = deepcopy(preview_puzzle)
    /\ tgt' = "work"
    /\ stack' = <<>>
    /\ cont' = "load_solved"
    /\ pc' = "solve_call"
    /\ op' = "load"
    /\ UNCHANGED <<solutions, limit, ret, args, scan, before, prev, gen>>
    /\ UNCHANGED <<random_state, other_shuffles>>
    /\ UNCHANGED <<game, pool>>

\* lines 1449-1479: with is_solvable the LOAD PUZZLE button holds
\* (preview_puzzle, test_board), and count_solutions(preview_puzzle, 2)
\* runs for the message; lines 1489-1497 otherwise
LoadSolved ==
    /\ pc = "load_solved"
    /\ IF ret = TRUE
       THEN /\ pool' = Append(pool, [kind |-> "file", clues |-> 0,
                                     puzzle |-> board, solution |-> work])
            /\ StartCount(board, 2, "gen_idle")
       ELSE /\ pc' = "gen_idle"
            /\ UNCHANGED <<pool, work, tgt, solutions, limit, stack, cont>>
    /\ UNCHANGED <<board, op, ret, args, scan, before, prev, gen>>
    /\ UNCHANGED <<random_state, other_shuffles, game>>

\* lines 229-236 and create_game_board: the constructor, with the pair the
\* first call of generate_puzzle returned
Construct ==
    /\ pc = "gen_idle"
    /\ game = NoGame
    /\ Len(pool) >= 1
    /\ game' = with_puzzle([difficulty |-> "medium",
                            puzzle |-> None, solution |-> None,
                            original_puzzle |-> None, user_puzzle |-> None,
                            game_completed |-> FALSE, auto_check |-> TRUE,
                            text |-> None, state |-> None, bound |-> {},
                            moves |-> 0],
                           pool[1])
    /\ pc' = "play"
    /\ UNCHANGED <<board, work, tgt, stack, solutions, limit, cont, op, ret,
                   args, scan, before, prev, gen>>
    /\ UNCHANGED <<random_state, other_shuffles, pool>>

\* what a handler leaves alone: everything but the session
HandlerFrame ==
    /\ UNCHANGED <<board, work, tgt, stack, solutions, limit, pc, cont, op,
                   ret, args, scan, before, prev, gen>>
    /\ UNCHANGED <<random_state, other_shuffles, pool>>

\* the user can still act
Playing == pc = "play" /\ game.moves < MaxMoves

\* the handler returns with the session g
Handled(g) == game' = [g EXCEPT !.moves = game.moves + 1]

\* lines 875-900: on_cell_change(row, col) with the Entry holding val
on_cell_change(g, row, col) ==
    LET val == g.text[row][col]
    IN  IF val = ""
        THEN [g EXCEPT !.user_puzzle = SetCell(g.user_puzzle, row, col, 0)]
        ELSE IF ~isdigit(val) \/ val = "0" \/ long(val)
        THEN IF g.state[row][col] = "readonly"
             THEN g
             ELSE [g EXCEPT !.text[row][col] =
                      IF g.user_puzzle[row][col] # 0
                      THEN str(g.user_puzzle[row][col]) ELSE ""]
        ELSE LET num == int(val)
                 placed == SetCell(g.user_puzzle, row, col, num)
                 checked == IF g.auto_check
                            THEN validate_cell(placed, g.solution, row, col, num)
                            ELSE placed
             IN  [g EXCEPT !.user_puzzle = checked,
                           !.game_completed =
                               g.game_completed
                                  \/ is_puzzle_complete(checked, g.solution)]

\* A key is released in a cell: an Entry that is not readonly holds what
\* the user typed, and on_cell_change runs when <KeyRelease> is bound.
KeyRelease ==
    /\ Playing
    /\ \E c \in KeyCells, val \in Keyed :
          LET row == c[1]
              col == c[2]
              typed == IF game.state[row][col] = "readonly"
                       THEN game
                       ELSE [game EXCEPT !.text[row][col] = val]
          IN  /\ c \in game.bound \/ game.state[row][col] # "readonly"
              /\ Handled(IF c \in game.bound
                         THEN on_cell_change(typed, row, col)
                         ELSE typed)
    /\ HandlerFrame

\* lines 925-931 and 944-953: on_focus_out(row, col) and clear_highlights
FocusOut ==
    /\ Playing
    /\ \E c \in KeyCells :
          LET row == c[1]
              col == c[2]
              val == game.text[row][col]
              own == IF game.auto_check /\ val # "" /\ isdigit(val)
                     THEN validate_cell(game.user_puzzle, game.solution,
                                        row, col, int(val))
                     ELSE game.user_puzzle
              all == IF game.auto_check
                     THEN validate_cells(own, game)
                     ELSE own
          IN  /\ c \in game.bound
              /\ Handled([game EXCEPT !.user_puzzle = all])
    /\ HandlerFrame

\* lines 710-725: the check box changes auto_check, then toggle_auto_check
ToggleAutoCheck ==
    /\ Playing
    /\ LET on == ~game.auto_check
       IN  Handled([game EXCEPT
               !.auto_check = on,
               !.user_puzzle = IF on
                               THEN validate_cells(game.user_puzzle, game)
                               ELSE game.user_puzzle])
    /\ HandlerFrame

\* lines 1071-1097: validation_board when the scan of check_solution is at
\* cell k: a copy of user_puzzle in which the cells before k whose Entry
\* holds a number other than 0 hold that number (line 1097)
validation_board(g, k) ==
    [i \in Idx |-> [j \in Idx |->
        LET val == g.text[i][j]
        IN  IF 9 * i + j < k /\ val # "" /\ val # "0" /\ isdigit(val)
            THEN int(val) ELSE g.user_puzzle[i][j]]]

\* lines 1073-1095: the scan met an empty cell, a cell in conflict or an
\* incorrect cell
check_found(g) ==
    \E i \in Idx, j \in Idx :
        LET val == g.text[i][j]
        IN  \/ val = "" \/ val = "0"
            \/ /\ isdigit(val)
               /\ \/ ~is_valid_move(
                        SetCell(validation_board(g, 9 * i + j), i, j, 0),
                        i, j, int(val))
                  \/ int(val) # g.solution[i][j]

\* lines 1065-1117: check_solution; on_puzzle_complete when nothing is
\* found
CheckSolution ==
    /\ Playing
    /\ Handled([game EXCEPT !.game_completed =
           game.game_completed
              \/ ~check_found(game)])
    /\ HandlerFrame

\* lines 1119-1144, the answer to the question being yes
ShowSolution ==
    /\ Playing
    /\ Handled(
          IF game.game_completed THEN game
          ELSE [game EXCEPT
                  !.text = [i \in Idx |-> [j \in Idx |->
                      IF writable(game.state[i][j])
                      THEN str(game.solution[i][j]) ELSE game.text[i][j]]],
                  !.user_puzzle = [i \in Idx |-> [j \in Idx |->
                      IF writable(game.state[i][j])
                      THEN game.solution[i][j] ELSE game.user_puzzle[i][j]]]])
    /\ HandlerFrame

\* lines 1147-1167: the empty cell with the fewest digits that
\* is_valid_move allows, the first such cell in row-major order; None when
\* there is none
best_cell(user_puzzle) ==
    LET empty_cells == {c \in Cells : user_puzzle[c[1]][c[2]] = 0}
        possibilities ==
            [c \in empty_cells |->
                Cardinality({num \in Digits :
                                is_valid_move(user_puzzle, c[1], c[2], num)})]
        cand == {c \in empty_cells : possibilities[c] > 0}
    IN  IF cand = {} THEN None
        ELSE LET min_possibilities ==
                     CHOOSE m \in {possibilities[c] : c \in cand} :
                        \A c \in cand : m <= possibilities[c]
                 least == {c \in cand : possibilities[c] = min_possibilities}
             IN  CHOOSE c \in least :
                    \A d \in least : 9 * c[1] + c[2] <= 9 * d[1] + d[2]

\* lines 1146-1187
GiveHint ==
    /\ Playing
    /\ LET best == best_cell(game.user_puzzle)
       IN  Handled(
             IF best = None THEN game
             ELSE LET i == best[1]
                      j == best[2]
                      correct_value == game.solution[i][j]
                  IN  [game EXCEPT
                         !.text[i][j] =
                             IF game.state[i][j] = "readonly"
                             THEN game.text[i][j] ELSE str(correct_value),
                         !.user_puzzle =
                             SetCell(game.user_puzzle, i, j, correct_value)])
    /\ HandlerFrame

\* lines 1189-1203, the answer to the question being yes
ClearBoard ==
    /\ Playing
    /\ Handled([game EXCEPT
          !.text = [i \in Idx |-> [j \in Idx |->
              IF writable(game.state[i][j]) THEN "" ELSE game.text[i][j]]],
          !.user_puzzle = [i \in Idx |-> [j \in Idx |->
              IF writable(game.state[i][j]) THEN 0 ELSE game.user_puzzle[i][j]]],
          !.game_completed = FALSE])
    /\ HandlerFrame

\* lines 1603-1617, the answer to the question being yes: the pair is one
\* that generate_puzzle(self.difficulty) returns
NewGame ==
    /\ Playing
    /\ \E t \in 1 .. Len(pool) :
          /\ pool[t].kind = "generated"
          /\ pool[t].clues = clues_of(game.difficulty)
          /\ Handled(with_puzzle(game, pool[t]))
    /\ HandlerFrame

\* lines 1626-1647: change_difficulty(difficulty), and new_game with either
\* answer to its question
ChangeDifficulty ==
    /\ Playing
    /\ \E difficulty \in Difficulties \cap {PoolOrder[t] : t \in 1 .. Len(PoolOrder)} :
          LET g == [game EXCEPT !.difficulty = difficulty]
          IN  \/ Handled(g)
              \/ \E t \in 1 .. Len(pool) :
                    /\ pool[t].kind = "generated"
                    /\ pool[t].clues = clues_of(difficulty)
                    /\ Handled(with_puzzle(g, pool[t]))
    /\ HandlerFrame

\* lines 1511-1533: the LOAD PUZZLE button of a validated file
ConfirmLoad ==
    /\ Playing
    /\ \E t \in 1 .. Len(pool) :
          /\ pool[t].kind = "file"
          /\ Handled(with_puzzle(game, pool[t]))
    /\ HandlerFrame

NextGame ==
    \/ PoolStart
    \/ PoolReturn
    \/ LoadStart
    \/ LoadSolved
    \/ Construct
    \/ KeyRelease
    \/ FocusOut
    \/ ToggleAutoCheck
    \/ CheckSolution
    \/ ShowSolution
    \/ GiveHint
    \/ ClearBoard
    \/ NewGame
    \/ ChangeDifficulty
    \/ ConfirmLoad
    \/ GenSolved
    \/ GenLoop
    \/ GenCounted
    \/ SolveCall
    \/ SolveLoop
    \/ SolveFail
    \/ FindCall
    \/ FindLoop
    \/ FindUndo

SpecGame == InitGen /\ [][NextGame]_vars

(***************************************************************************)
(* Vocabulary of the properties: the rules of Sudoku stated on the grid,   *)
(* without the solver's scans.                                             *)
(***************************************************************************)
\* box index of a cell: 3 * (row / 3) + (col / 3)
BoxOf(i, j) == 3 * (i \div 3) + (j \div 3)

RowCells(r) == {c \in Cells : c[1] = r}
ColCells(k) == {c \in Cells : c[2] = k}
BoxCells(b) == {c \in Cells : BoxOf(c[1], c[2]) = b}
Units == {RowCells(r) : r \in Idx} \cup {ColCells(k) : k \in Idx}
            \cup {BoxCells(b) : b \in Idx}

At(g, c) == g[c[1]][c[2]]

\* no digit appears twice in a row, column or box among the non-zero cells
NoDuplicate(g) ==
    \A u \in Units : \A c \in u : \A d \in u :
        (c # d /\ At(g, c) # 0) => At(g, c) # At(g, d)

AllFilled(g) == \A c \in Cells : At(g, c) # 0

NonZero(g) == Cardinality({c \in Cells : At(g, c) # 0})

\* every row, column and box is a permutation of 1..9
RuleValid(g) == \A u \in Units : {At(g, c) : c \in u} = Digits

\* num is held by a cell other than (row, col) in its row, column or box
Occurs(g, row, col, num) ==
    \E c \in Cells :
        /\ c # <<row, col>>
        /\ c[1] = row \/ c[2] = col \/ BoxOf(c[1], c[2]) = BoxOf(row, col)
        /\ At(g, c) = num

\* The completions of g: the rule-valid grids that agree with g on its
\* non-zero cells.  Fills(g) fills each empty cell with a digit its row
\* still lacks, which every rule-valid completion does.
RECURSIVE Fills(_)
Fills(g) ==
    LET zs == {c \in Cells : At(g, c) = 0}
    IN  IF zs = {} THEN {g}
        ELSE LET c == CHOOSE x \in zs : TRUE
                 lacking == Digits \ {g[c[1]][j] : j \in Idx}
             IN  UNION {Fills(SetCell(g, c[1], c[2], v)) : v \in lacking}

Completions(g) == {h \in Fills(g) : RuleValid(h)}

Min(a, b) == IF a <= b THEN a ELSE b

\* The full grids the search accepts from g: every empty cell, taken in
\* the order of find_empty, holds a digit that is_valid_move allowed when
\* the cells before it were filled.  No order of digits, no limit.
RECURSIVE Accepted(_)
Accepted(g) ==
    LET empty == find_empty(g)
    IN  IF empty = None THEN {g}
        ELSE UNION {Accepted(SetCell(g, empty[1], empty[2], n)) :
                       n \in {m \in Digits : is_valid_move(g, empty[1], empty[2], m)}}

\* grid a comes before grid b when the cells are read row-major
LexLess(a, b) ==
    \E k \in 0 .. 80 :
        /\ a[k \div 9][k % 9] < b[k \div 9][k % 9]
        /\ \A m \in 0 .. k - 1 : a[m \div 9][m % 9] = b[m \div 9][m % 9]

SolveDone == pc = "done" /\ op = "solve"
CountDone == pc = "done" /\ op = "count_solutions"
PuzzleDone == pc = "done" /\ op = "is_valid_puzzle"
MoveDone == pc = "done" /\ op = "is_valid_move"
GenDone == pc = "done" /\ op = "generate_puzzle"
AfterGen == prev # None /\ prev[1] = "generate_puzzle"

\* the pair generate_puzzle returned
Puzzle == prev[2][1]
Solution == prev[2][2]

(***************************************************************************)
(* C1: when solve returns false, the grid is cell for cell the grid it was *)
(* given: every digit the failed search placed has been reset to 0.        *)
(***************************************************************************)
C1_SolveFailureRestores == (SolveDone /\ ret = FALSE) => board = before

\* a failed search that did place a digit in the first empty cell
C1_Witness ==
    /\ SolveDone /\ ret = FALSE
    /\ find_empty(before) # None
    /\ next_num(before, find_empty(before)[1], find_empty(before)[2], 0) # 0
    /\ board = before

(***************************************************************************)
(* C2: the puzzle returned by generate_puzzle has exactly one solution:    *)
(* count_solutions(puzzle, 2) called on it returns 1.                      *)
(***************************************************************************)
C2_GeneratedPuzzleUnique ==
    (CountDone /\ AfterGen) => (before = Puzzle /\ ret = 1)

\* the count on a returned puzzle from which cells were removed and in
\* which at least one removal was refused
C2_Witness ==
    /\ CountDone /\ AfterGen /\ ret = 1
    /\ gen.removed > 0
    /\ gen.pos - 1 > gen.removed

(***************************************************************************)
(* C3: solve on a copy of the returned puzzle returns true and turns the   *)
(* copy into the returned solution, and the search for all completions of  *)
(* the puzzle finds that solution and no other.                            *)
(***************************************************************************)
C3_PuzzleResolvesToSolution ==
    /\ (SolveDone /\ AfterGen) => (ret = TRUE /\ work = Solution)
    /\ (CountDone /\ AfterGen) => solutions = <<Solution>>

\* a puzzle with empty cells whose copy was solved into the solution
C3_Witness ==
    /\ SolveDone /\ AfterGen /\ ret = TRUE
    /\ before = Puzzle /\ ~AllFilled(Puzzle)
    /\ work = Solution

(***************************************************************************)
(* C4, as claimed: on any grid on which solve returns true, the grid is    *)
(* full and every row, column and box is a permutation of 1..9.            *)
(***************************************************************************)
C4_AsClaimed ==
    (SolveDone /\ ret = TRUE) => (AllFilled(board) /\ RuleValid(board))

(***************************************************************************)
(* C4, amended: on a grid without a duplicate in any row, column or box on *)
(* which solve returns true, the grid is full, every row, column and box   *)
(* is a permutation of 1..9, and is_valid_puzzle called on it returns true.*)
(***************************************************************************)
C4_SolvedGridValid ==
    /\ (SolveDone /\ ret = TRUE /\ NoDuplicate(before))
          => (AllFilled(board) /\ RuleValid(board))
    /\ (PuzzleDone /\ prev # None /\ prev[1] = "solve" /\ prev[2] = TRUE
           /\ NoDuplicate(prev[3]))
          => ret = TRUE

\* is_valid_puzzle has returned on a grid that solve completed from a
\* consistent grid with empty cells
C4_Witness ==
    /\ PuzzleDone /\ prev # None /\ prev[1] = "solve" /\ prev[2] = TRUE
    /\ NoDuplicate(prev[3]) /\ ~AllFilled(prev[3])
    /\ AllFilled(board) /\ ret = TRUE

(***************************************************************************)
(* C5: count_solutions never writes to the caller's board: during the call *)
(* and after it the board is the board the caller passed.                  *)
(***************************************************************************)
C5_CountLeavesBoard == op = "count_solutions" => board = before

\* the search has written to its private copy and the board is intact
C5_Witness ==
    /\ op = "count_solutions" /\ pc = "find_call"
    /\ work # board
    /\ board = before

(***************************************************************************)
(* C6, as claimed: for every grid and limit >= 1, count_solutions returns  *)
(* min(limit, N), N the number of rule-valid completions of the grid.      *)
(***************************************************************************)
C6_AsClaimed ==
    CountDone => ret = Min(limit, Cardinality(Completions(before)))

(***************************************************************************)
(* C6, amended: for every grid without a duplicate in any row, column or   *)
(* box and every limit >= 1, count_solutions returns an integer in         *)
(* 0..limit equal to min(limit, N), N the number of rule-valid completions.*)
(***************************************************************************)
C6_CountIsCappedNumber ==
    (CountDone /\ NoDuplicate(before))
       => /\ ret \in 0 .. limit
          /\ ret = Min(limit, Cardinality(Completions(before)))

\* the cap: a consistent grid with more completions than the limit
C6_Witness ==
    /\ CountDone /\ NoDuplicate(before)
    /\ limit = 2 /\ ret = 2
    /\ Cardinality(Completions(before)) >= 2

(***************************************************************************)
(* C7: the removed counter never exceeds 81 - clue_target, the target is   *)
(* the table's 40, 32, 26 or 22, and the returned puzzle has at least that *)
(* many non-zero cells.                                                    *)
(***************************************************************************)
C7_NeverOvershoots ==
    /\ gen.removed <= gen.target_removed
    /\ op = "generate_puzzle" =>
          /\ gen.clues \in {40, 32, 26, 22}
          /\ gen.target_removed \in {0, 81 - gen.clues}
    /\ GenDone => NonZero(board) >= gen.clues

\* a run that stopped because removed reached the target
C7_Witness ==
    /\ GenDone
    /\ gen.removed = gen.target_removed
    /\ NonZero(board) = gen.clues
    /\ gen.pos <= Len(gen.cells)

(***************************************************************************)
(* C8: is_valid_move returns false exactly when num is held by another     *)
(* cell of the row, the column or the box of (row, col); what the cell     *)
(* (row, col) itself holds does not change the result; the board is left   *)
(* as it was.                                                              *)
(***************************************************************************)
C8_ValidMoveIffAbsent ==
    MoveDone =>
       /\ ret = ~Occurs(before, args[1], args[2], args[3])
       /\ \A v \in 0 .. 9 :
             is_valid_move(SetCell(before, args[1], args[2], v),
                           args[1], args[2], args[3]) = ret
       /\ board = before

\* the cell already holds num and the move is valid: no other cell of its
\* row, column and box holds it
C8_Witness ==
    /\ MoveDone /\ ret = TRUE
    /\ before[args[1]][args[2]] = args[3]

(***************************************************************************)
(* C9: is_valid_puzzle returns true exactly when no digit appears twice in *)
(* a row, column or box among the non-zero cells, and exactly when         *)
(* is_valid_move(board, i, j, board[i][j]) holds for every non-zero cell.  *)
(***************************************************************************)
C9_ValidPuzzleIffNoDuplicate ==
    PuzzleDone =>
       /\ ret = NoDuplicate(before)
       /\ ret = \A c \in Cells :
                   At(before, c) # 0
                      => is_valid_move(before, c[1], c[2], At(before, c))

\* a grid with a duplicate was rejected
C9_Witness == PuzzleDone /\ ret = FALSE /\ ~NoDuplicate(before)

(***************************************************************************)
(* C10: is_valid_puzzle leaves the board as it found it on every path,     *)
(* the early return of false included: after every iteration of its loop   *)
(* and on return the board is the board it was given.                      *)
(***************************************************************************)
C10_ValidPuzzleRestores == op = "is_valid_puzzle" => board = before

\* the early return on the first conflict, past at least one non-zero cell
C10_Witness ==
    /\ PuzzleDone /\ ret = FALSE
    /\ scan > 0
    /\ board = before

(***************************************************************************)
(* Progress of a search.  Rank reads the active calls from the outermost   *)
(* to the innermost: twice the digit a call holds in its cell, plus one    *)
(* once everything below that digit has been searched (the call is back in *)
(* its loop).  SeqLess is the order of a dictionary.                       *)
(***************************************************************************)
Running == pc \in {"solve_call", "solve_loop", "solve_fail",
                   "find_call", "find_loop", "find_undo"}

Rank ==
    [k \in 1 .. Len(stack) |->
        IF k = Len(stack) /\ pc \notin {"solve_call", "find_call"}
        THEN 2 * stack[k][3] + 1 ELSE 2 * stack[k][3]]

Phase == IF pc \in {"solve_loop", "find_loop"} THEN 1 ELSE 0

SeqLess(s, t) ==
    \/ Len(s) < Len(t) /\ \A k \in 1 .. Len(s) : s[k] = t[k]
    \/ \E k \in 1 .. Min(Len(s), Len(t)) :
          s[k] < t[k] /\ \A m \in 1 .. k - 1 : s[m] = t[m]

(***************************************************************************)
(* C11: solve and count_solutions return on every input grid (values 0..9, *)
(* consistent or not) with no iteration limit.  A search that has not      *)
(* returned can always take its next step; every step moves the search     *)
(* forward in the dictionary order of the digits the active calls hold,    *)
(* so no state of a search comes twice; and the recursion is as deep as    *)
(* cells have been filled since the call started, at most the number of    *)
(* empty cells of the input, each level holding a digit 0..9.              *)
(***************************************************************************)
C11_SearchTerminates ==
    /\ []((Running /\ op \in {"solve", "count_solutions"}) =>
            /\ ENABLED Search
            /\ Len(stack) <= 81 - NonZero(before)
            /\ NonZero(Cur) - NonZero(before) \in {Len(stack) - 1, Len(stack)}
            /\ \A k \in 1 .. Len(stack) : stack[k][3] \in 0 .. 9)
    /\ [][(Running /\ Running') =>
             \/ SeqLess(Rank, Rank')
             \/ Rank = Rank' /\ Phase < Phase']_vars

\* an exhaustive search that found nothing on a grid with empty cells has
\* returned
C11_Witness ==
    /\ CountDone /\ ret = 0
    /\ ~AllFilled(before)
    /\ work = before

(***************************************************************************)
(* C12: in generate_puzzle, whatever three permutations are placed in the  *)
(* diagonal boxes, the call solve(board) on the seeded grid returns true   *)
(* and leaves a full grid in which every row, column and box is a          *)
(* permutation of 1..9; the solution copied from it at line 152 is that    *)
(* grid.                                                                   *)
(***************************************************************************)
C12_SeededSolveSucceeds ==
    /\ pc = "gen_solved" =>
          /\ ret = TRUE
          /\ AllFilled(board) /\ RuleValid(board)
    /\ pc = "gen_loop" =>
          /\ gen.solution = board
          /\ AllFilled(gen.solution) /\ RuleValid(gen.solution)

\* the solve of a grid seeded with three different permutations has
\* returned true
C12_Witness ==
    /\ pc = "gen_solved" /\ ret = TRUE
    /\ RuleValid(board)
    /\ board[0][0] # board[3][3] /\ board[3][3] # board[6][6]
    /\ board[0][0] # board[6][6]
    /\ board[0][1] # (board[0][0] % 9) + 1

(***************************************************************************)
(* C13: on every input grid and for every limit >= 1, solve returns false  *)
(* exactly when count_solutions on the same grid returns 0.  Both report   *)
(* by return value: solve returns a boolean, count_solutions an integer.   *)
(***************************************************************************)
C13_SolveFalseIffCountZero ==
    /\ (SolveDone /\ prev # None /\ prev[1] = "count_solutions"
           /\ prev[3] = before)
          => ((ret = FALSE) <=> (prev[2] = 0))
    /\ SolveDone => ret \in BOOLEAN
    /\ CountDone => ret \in Nat

\* count_solutions returned 0 on a grid with empty cells, and solve on that
\* grid has returned false
C13_Witness ==
    /\ SolveDone /\ ret = FALSE
    /\ prev # None /\ prev[1] = "count_solutions" /\ prev[2] = 0
    /\ prev[3] = before /\ ~AllFilled(before)

(***************************************************************************)
(* C14: two calls of generate_puzzle with the same difficulty whose box    *)
(* shuffles and coordinate shuffle produce the same permutations return    *)
(* the same (puzzle, solution) pair, whatever the first call left behind.  *)
(***************************************************************************)
C14_SameDrawsSameResult ==
    (GenDone /\ gen.run = 2 /\ gen.cells = gen.first)
       => (prev[1] = "generate_puzzle" /\ ret = prev[2])

\* a second call with the draws of the first has returned the pair of the
\* first, a puzzle with cells removed
C14_Witness ==
    /\ GenDone /\ gen.run = 2 /\ gen.cells = gen.first
    /\ ret = prev[2]
    /\ gen.removed > 0 /\ ret[1] # ret[2]

(***************************************************************************)
(* C15, as claimed: concurrent invocations share no mutable state: an      *)
(* invocation of generate_puzzle interleaved with a second one returns the *)
(* pair it returns when run alone with the same difficulty and seed.       *)
(***************************************************************************)
C15_AsClaimed ==
    (GenDone /\ gen.run = 2) => ret = prev[2]

(***************************************************************************)
(* C16: on the all-zero grid count_solutions(grid, 2) returns 2, the cap,  *)
(* and the grid is all zeros during the call and after it.                 *)
(***************************************************************************)
C16_EmptyGridCountsTwo ==
    /\ (CountDone /\ before = EmptyBoard /\ limit = 2) => ret = 2
    /\ (op = "count_solutions" /\ before = EmptyBoard) => board = EmptyBoard

\* the count on the all-zero grid has returned with two different full
\* grids recorded
C16_Witness ==
    /\ CountDone /\ before = EmptyBoard /\ limit = 2
    /\ Len(solutions) = 2 /\ solutions[1] # solutions[2]
    /\ RuleValid(solutions[1]) /\ RuleValid(solutions[2])
    /\ board = EmptyBoard

(***************************************************************************)
(* C17: on the canonical puzzle solve returns true and leaves all 81 cells *)
(* non-zero, is_valid_puzzle then returns true on the result, and          *)
(* count_solutions with limit 2 on the unsolved puzzle returns 1.          *)
(***************************************************************************)
C17_CanonicalPuzzle ==
    /\ (SolveDone /\ before = CanonicalPuzzle)
          => (ret = TRUE /\ AllFilled(board))
    /\ (PuzzleDone /\ prev # None /\ prev[1] = "solve"
           /\ prev[3] = CanonicalPuzzle)
          => ret = TRUE
    /\ (CountDone /\ before = CanonicalPuzzle /\ limit = 2) => ret = 1

\* is_valid_puzzle has accepted the grid solve made of the canonical puzzle
C17_Witness ==
    /\ PuzzleDone /\ ret = TRUE
    /\ prev # None /\ prev[1] = "solve" /\ prev[2] = TRUE
    /\ prev[3] = CanonicalPuzzle
    /\ AllFilled(board) /\ board = SolvedBoard

(***************************************************************************)
(* C18: solve never writes to a cell that was non-zero in its input: at    *)
(* every point of the search and in the grid it leaves, every given cell   *)
(* holds its original value, so the completed grid extends the input.      *)
(***************************************************************************)
C18_SolveKeepsGivens ==
    op = "solve" =>
       \A c \in Cells : At(before, c) # 0 => At(Cur, c) = At(before, c)

\* the search has just emptied a cell again, other cells it filled are
\* still filled, and the givens are as they were
C18_Witness ==
    /\ op = "solve" /\ pc = "solve_loop"
    /\ Len(stack) >= 2 /\ Top[3] # 0
    /\ At(Cur, <<Top[1], Top[2]>>) = 0
    /\ Cur # before
    /\ \A c \in Cells : At(before, c) # 0 => At(Cur, c) = At(before, c)

(***************************************************************************)
(* C19: when solve returns true, the grid it leaves is the first solution  *)
(* _find_all_solutions records for the same input, and it is the smallest, *)
(* read row-major, of all the full grids the search accepts from the       *)
(* input.                                                                  *)
(***************************************************************************)
C19_SolveKeepsFirstSolution ==
    /\ (SolveDone /\ ret = TRUE /\ prev # None
           /\ prev[1] = "count_solutions" /\ prev[3] = before)
          => (prev[4] # <<>> /\ board = prev[4][1])
    /\ (SolveDone /\ ret = TRUE)
          => /\ board \in Accepted(before)
             /\ \A h \in Accepted(before) : h = board \/ LexLess(board, h)

\* the search recorded several solutions of a grid, and solve on that grid
\* has left the first of them
C19_Witness ==
    /\ SolveDone /\ ret = TRUE
    /\ prev # None /\ prev[1] = "count_solutions" /\ prev[3] = before
    /\ Len(prev[4]) >= 2 /\ prev[4][1] # prev[4][2]
    /\ board = prev[4][1]
    /\ LexLess(board, prev[4][2])

(***************************************************************************)
(* C20: the solutions list never holds more than limit entries, and once   *)
(* it holds limit entries the search goes no deeper and records nothing    *)
(* more: every later call of _find_all_solutions returns at line 113.      *)
(***************************************************************************)
C20_StopsAtLimit ==
    /\ [](op = "count_solutions" => Len(solutions) <= limit)
    /\ [][(/\ op = "count_solutions"
            /\ pc \in {"find_call", "find_loop", "find_undo"}
            /\ Len(solutions) >= limit)
              => (Len(stack') <= Len(stack) /\ solutions' = solutions)]_vars

\* the limit has been reached inside the search, and a caller up the stack
\* has placed its next digit and made a call, which will return at once
C20_Witness ==
    /\ op = "count_solutions" /\ pc = "find_call"
    /\ limit >= 2 /\ Len(solutions) = limit
    /\ Len(stack) >= 2
    /\ At(Cur, <<Top[1], Top[2]>>) = Top[3]

(***************************************************************************)
(* C21: find_empty returns the first cell equal to 0 in row-major order:   *)
(* the cell it returns holds 0 and no cell before it in that order does;   *)
(* it returns None exactly when the grid has no zero cell; the grid is     *)
(* left as it was.                                                         *)
(***************************************************************************)
C21_FindEmptyFirstZero ==
    (pc = "done" /\ op = "find_empty") =>
       /\ (ret = None) <=> AllFilled(before)
       /\ ret # None =>
             /\ ret \in Cells /\ At(before, ret) = 0
             /\ \A c \in Cells :
                   9 * c[1] + c[2] < 9 * ret[1] + ret[2] => At(before, c) # 0
       /\ board = before

\* the cell returned has a zero cell to its left in a later row
C21_Witness ==
    /\ pc = "done" /\ op = "find_empty" /\ ret # None
    /\ \E c \in Cells : c[1] > ret[1] /\ c[2] < ret[2] /\ At(before, c) = 0

\* generate_puzzle is at line 151: the three boxes are written and solve
\* has not yet looked at the board
Seeded ==
    /\ op = "generate_puzzle" /\ pc = "solve_call"
    /\ cont = "gen_solved" /\ stack = <<>>

(***************************************************************************)
(* C22: after the seeding, whatever the three shuffles gave, each of the   *)
(* boxes 0, 4 and 8 holds each of 1..9 exactly once, every cell outside    *)
(* these boxes is 0, and the grid is consistent: no digit twice in a row,  *)
(* column or box, and is_valid_puzzle accepts every non-zero cell.         *)
(***************************************************************************)
C22_SeedFillsDiagonalBoxes ==
    Seeded =>
       /\ \A b \in {0, 4, 8} :
             /\ {At(board, c) : c \in BoxCells(b)} = Digits
             /\ \A n \in Digits :
                   Cardinality({c \in BoxCells(b) : At(board, c) = n}) = 1
       /\ \A c \in Cells :
             BoxOf(c[1], c[2]) \notin {0, 4, 8} => At(board, c) = 0
       /\ NoDuplicate(board)
       /\ \A c \in Cells :
             At(board, c) # 0 => ivp_body(board, c[1], c[2]).valid

\* a seeded board whose three boxes hold three different orders, one of
\* them not an ascending run
C22_Witness ==
    /\ Seeded
    /\ board[0][0] # board[3][3] /\ board[3][3] # board[6][6]
    /\ board[0][0] # board[6][6]
    /\ board[6][7] # (board[6][6] % 9) + 1
    /\ NonZero(board) = 27

\* generate_puzzle is between two iterations of the loop of line 160, or
\* before the first, or after the last
AtLoopHead == op = "generate_puzzle" /\ pc = "gen_loop"

\* the number of zero cells of g
Zeros(g) == 81 - NonZero(g)

\* the coordinates the running iteration took from cells
DigCell == gen.cells[gen.pos]

(***************************************************************************)
(* C23: at the start and at the end of every iteration of the dig loop the *)
(* working board has exactly one solution and removed is the number of its *)
(* zero cells.  An iteration whose removal does not leave exactly one      *)
(* solution ends with the board it started with and with removed as it     *)
(* was: the iteration starts by saving the cell in backup and zeroing it,  *)
(* the count leaves board, backup and removed alone, and the refused       *)
(* removal writes backup into the cell again.                              *)
(***************************************************************************)
C23_DigLoopInvariant ==
    /\ [](AtLoopHead =>
            /\ Cardinality(Accepted(board)) = 1
            /\ gen.removed = Zeros(board))
    /\ [][/\ (AtLoopHead /\ pc' # "done") =>
               /\ board = SetCell(board', DigCell[1], DigCell[2], gen'.backup)
               /\ gen'.removed = gen.removed /\ gen'.pos = gen.pos
          /\ (op = "generate_puzzle" /\ pc \in {"find_call", "find_loop", "find_undo"}) =>
               /\ board' = board /\ gen' = gen
          /\ (op = "generate_puzzle" /\ pc = "gen_counted" /\ ret # 1) =>
               /\ board' = SetCell(board, DigCell[1], DigCell[2], gen.backup)
               /\ gen'.removed = gen.removed
               /\ pc' = "gen_loop"
          /\ (op = "generate_puzzle" /\ pc = "gen_counted" /\ ret = 1) =>
               /\ board' = board
               /\ gen'.removed = gen.removed + 1
               /\ pc' = "gen_loop"]_vars

\* the loop head after an iteration whose removal was refused, with cells
\* removed before it
C23_Witness ==
    /\ AtLoopHead /\ gen.pos > 1
    /\ ret # 1 /\ ret \in Nat
    /\ At(board, gen.cells[gen.pos - 1]) # 0
    /\ gen.removed > 0 /\ gen.removed = Zeros(board)

\* generate_puzzle is inside its loop: at the head or waiting for the count
InDig == op = "generate_puzzle" /\ pc \in {"gen_loop", "gen_counted"}

(***************************************************************************)
(* C24: the dig loop is a single pass over the shuffled list.  The list    *)
(* holds each of the 81 coordinates once and does not change; the position *)
(* in it only moves forward, by one per iteration, and the iteration at a  *)
(* position works on the coordinates at that position, so that each        *)
(* coordinate is tried at most once, in the order of the list.  At the     *)
(* loop head the function returns, with the board as it is, exactly when   *)
(* removed has reached target_removed or the list is exhausted.  On return *)
(* either the puzzle has exactly the clue target of non-zero cells, or all *)
(* 81 coordinates were tried and it has more.                              *)
(***************************************************************************)
C24_SinglePass ==
    /\ [](InDig =>
            /\ Len(gen.cells) = 81
            /\ {gen.cells[t] : t \in 1 .. 81} = Cells
            /\ gen.pos \in 1 .. 82
            /\ pc = "gen_counted" => gen.pos <= 81
            /\ \A t \in gen.pos + 1 .. 81 :
                  At(board, gen.cells[t]) = At(gen.solution, gen.cells[t]))
    /\ [](GenDone =>
            \/ NonZero(board) = gen.clues
            \/ gen.pos = 82 /\ NonZero(board) > gen.clues)
    /\ [][/\ (InDig /\ op' = "generate_puzzle") =>
               /\ gen'.cells = gen.cells
               /\ gen'.pos \in {gen.pos, gen.pos + 1}
          /\ AtLoopHead =>
               /\ (pc' = "done") <=>
                     (gen.removed >= gen.target_removed \/ gen.pos > 81)
               /\ pc' = "done" => (board' = board /\ ret'[1] = board)
               /\ pc' # "done" =>
                     /\ gen'.pos = gen.pos
                     /\ board' = SetCell(board, DigCell[1], DigCell[2], 0)
          /\ (op = "generate_puzzle" /\ pc = "gen_counted") =>
               /\ gen'.pos = gen.pos + 1
               /\ \A c \in Cells \ {DigCell} : At(board', c) = At(board, c)]_vars

\* the list was exhausted before removed reached the target
C24_Witness ==
    /\ GenDone
    /\ gen.pos = 82
    /\ gen.removed < gen.target_removed
    /\ NonZero(board) > gen.clues

\* generate_puzzle is past line 152
PastComplete ==
    op = "generate_puzzle" /\ gen.solution # None
       /\ pc \in {"gen_loop", "gen_counted", "find_call", "find_loop",
                  "find_undo", "done"}

(***************************************************************************)
(* C25: the solution generate_puzzle returns is the board as solve left it *)
(* at line 151: it is taken from the board at that point, no step of the   *)
(* dig loop changes it although the board is written (the two share no     *)
(* cell), and it is what is returned.  Every non-zero cell of the returned *)
(* puzzle holds the digit the solution has there.                          *)
(***************************************************************************)
C25_SolutionIsCompletedBoard ==
    /\ [](PastComplete => AllFilled(gen.solution))
    /\ [](GenDone =>
            /\ ret[2] = gen.solution
            /\ ret[1] = board
            /\ \A c \in Cells :
                  At(ret[1], c) # 0 => At(ret[1], c) = At(ret[2], c))
    /\ [][/\ (op = "generate_puzzle" /\ pc = "gen_solved") =>
               (gen'.solution = board /\ board' = board)
          /\ (PastComplete /\ op' = "generate_puzzle") =>
               gen'.solution = gen.solution]_vars

\* a returned pair whose puzzle has lost cells and whose solution is full
C25_Witness ==
    /\ GenDone
    /\ ret[1] # ret[2]
    /\ ~AllFilled(ret[1]) /\ AllFilled(ret[2])
    /\ ret[2] = gen.solution

(***************************************************************************)
(* C26: when the grid given to solve is consistent (no digit twice in a    *)
(* row, column or box), the grid is consistent in every state of the       *)
(* search, after each placement and after each reset, and a result of true *)
(* comes with a full grid in which every row, column and box is a          *)
(* permutation of 1..9.                                                    *)
(***************************************************************************)
C26_SolvePreservesConsistency ==
    (op = "solve" /\ NoDuplicate(before)) =>
       /\ NoDuplicate(board)
       /\ (pc = "done" /\ ret = TRUE) => (AllFilled(board) /\ RuleValid(board))

\* a consistent grid in mid-search: a cell was reset after the digit tried
\* in it failed, while an earlier placement stands
C26_Witness ==
    /\ op = "solve" /\ pc = "solve_loop"
    /\ NoDuplicate(before)
    /\ Len(stack) >= 2
    /\ Top[3] # 0 /\ board[Top[1]][Top[2]] = 0
    /\ board[stack[1][1]][stack[1][2]] # 0
    /\ NoDuplicate(board)

(***************************************************************************)
(* C27: a puzzle that generate_puzzle returns with more non-zero cells     *)
(* than the clue target is irreducible: with any one of its clues set to   *)
(* 0, count_solutions(grid, 2) returns 2.                                  *)
(***************************************************************************)
C27_UndershootIsIrreducible ==
    (CountDone /\ AfterGen /\ NonZero(Puzzle) > gen.clues
        /\ NonZero(before) = NonZero(Puzzle) - 1)
       => ret = 2

\* the count on a returned puzzle of more clues than the target, with its
\* first clue in row-major order taken out
C27_Witness ==
    /\ CountDone /\ AfterGen
    /\ NonZero(Puzzle) > gen.clues
    /\ gen.pos = 82
    /\ \E c \in Cells :
          /\ At(Puzzle, c) # 0
          /\ before = SetCell(Puzzle, c[1], c[2], 0)
          /\ \A d \in Cells : 9 * d[1] + d[2] < 9 * c[1] + c[2] => At(Puzzle, d) = 0
    /\ ret = 2

\* a session exists and no handler is running
InSession == pc = "play"

(***************************************************************************)
(* C28: in a session, after any sequence of key releases, hints, clears,   *)
(* reveals, checks and puzzle replacements, every cell that is non-zero in *)
(* self.puzzle holds the same digit in self.user_puzzle.                   *)
(***************************************************************************)
C28_CluesStayInUserPuzzle ==
    InSession =>
       \A c \in Cells :
          At(game.puzzle, c) # 0 => At(game.user_puzzle, c) = At(game.puzzle, c)

\* a key was released in a clue cell that still has the binding of an
\* earlier puzzle, in which it was empty
C28_Witness ==
    /\ InSession
    /\ game.moves >= 2
    /\ \E c \in KeyCells :
          /\ c \in game.bound
          /\ At(game.puzzle, c) # 0
          /\ At(game.state, c) = "readonly"
          /\ At(game.user_puzzle, c) = At(game.puzzle, c)
    /\ \E c \in KeyCells :
          At(game.puzzle, c) = 0 /\ At(game.user_puzzle, c) # 0

\* solution is a full grid that obeys the rules and has the clues of puzzle
SolutionOf(solution, puzzle) ==
    /\ AllFilled(solution)
    /\ RuleValid(solution)
    /\ \A c \in Cells : At(puzzle, c) # 0 => At(solution, c) = At(puzzle, c)

(***************************************************************************)
(* C29: in every state of a session, after the constructor, new_game,      *)
(* change_difficulty or confirm_load_puzzle and whatever edits, hints,     *)
(* checks, clears and reveals follow, self.solution is a full grid that    *)
(* obeys the rules and agrees with self.puzzle on every clue cell: the     *)
(* pairs that generate_puzzle and the validation of a file hand over are   *)
(* such pairs, and a handler that changes self.solution is one of the      *)
(* three that put a new puzzle in place.                                   *)
(***************************************************************************)
C29_SolutionFitsPuzzle ==
    /\ [](\A t \in 1 .. Len(pool) : SolutionOf(pool[t].solution, pool[t].puzzle))
    /\ [](InSession => SolutionOf(game.solution, game.puzzle))
    /\ [][(InSession /\ game'.solution # game.solution)
             => (NewGame \/ ChangeDifficulty \/ ConfirmLoad)]_vars

\* a session on a puzzle loaded from a file, edited after the load
C29_Witness ==
    /\ InSession
    /\ game.puzzle = CanonicalPuzzle
    /\ game.solution # pool[1].solution
    /\ game.user_puzzle # game.puzzle
    /\ SolutionOf(game.solution, game.puzzle)

(***************************************************************************)
(* C30: validate_cell leaves self.user_puzzle as it was, called on any     *)
(* cell with the number its Entry holds and on the cells the user types in *)
(* with any number: on the path that returns at once nothing is written,   *)
(* and on the other the cell set to 0 gets its value back and no other     *)
(* cell is written.  The handlers that only call validate_cell,            *)
(* on_focus_out and toggle_auto_check, leave the grid as it was.           *)
(***************************************************************************)
C30_ValidateCellRestores ==
    /\ [](InSession =>
            /\ \A c \in Cells :
                  isdigit(At(game.text, c)) =>
                     validate_cell(game.user_puzzle, game.solution, c[1], c[2],
                                   int(At(game.text, c))) = game.user_puzzle
            /\ \A c \in KeyCells, num \in 0 .. 12 :
                  validate_cell(game.user_puzzle, game.solution, c[1], c[2], num)
                     = game.user_puzzle)
    /\ [][(FocusOut \/ ToggleAutoCheck)
             => game'.user_puzzle = game.user_puzzle]_vars

\* with auto_check on, a digit that is not the solution's was typed in an
\* empty cell: validate_cell took the path that zeroes the cell, and the
\* digit is in user_puzzle
C30_Witness ==
    /\ InSession
    /\ game.auto_check
    /\ \E c \in KeyCells :
          /\ c \in game.bound
          /\ At(game.state, c) = "normal"
          /\ At(game.user_puzzle, c) # 0
          /\ At(game.user_puzzle, c) # At(game.solution, c)
          /\ At(game.text, c) = str(At(game.user_puzzle, c))

====
